---- MODULE Spec2Model ----
(***************************************************************************)
(* Model of parrotty.py: the user-space consumer of the TTY ring buffer    *)
(* (handleevent, calibratetime, printevent), its signal handler and its    *)
(* poll loop.                                                              *)
(*                                                                         *)
(* Representation of the machine values:                                   *)
(*  - times are counted in ticks of 64 ns (6e10 ns and 1e6 ns are both     *)
(*    whole numbers of ticks); a wall-clock value x stands for             *)
(*    Epoch + 64*x ns, where Epoch is 0 (epoch = "unix0") or               *)
(*    1 800 000 000 000 000 000 ns (epoch = "now", a multiple of 512 ns    *)
(*    inside [2^60, 2^61), where a double has one value every 256 ns);     *)
(*  - a c_char array is its first bytes `head` followed by the byte        *)
(*    `fill` up to its capacity `cap`;                                     *)
(*  - a 64-bit identifier is a tuple of four 16-bit limbs, high first.     *)
(***************************************************************************)
EXTENDS Integers, Sequences, FiniteSets, TLC

\* ------------------------------------------------------------------ bounds
MaxRecords == 2
MaxSignals == 2
MaxRing == 2
MaxMono == 1000000000

\* --------------------------------------------------------------- constants
PAGE_SIZE == 4096
TASK_COMM_LEN == 16
\* sizeof(Event): 5 * 8 + 16 + 4096 + 4 + 4 bytes.
EVENT_SIZE == 4160
\* 6e10 ns in ticks of 64 ns.
UPDATE_INTERVAL == 937500000
\* 1e6 ns in ticks of 64 ns.
DRIFT_THRESHOLD == 15625
\* Distance, in ticks, between two doubles in [2^60, 2^61) ns: 256 ns.
DOUBLE_STEP == 4

EVENT_TYPES == <<"OUTPUT", "INPUT">>

Min(a, b) == IF a < b THEN a ELSE b
Abs(a) == IF a < 0 THEN 0 - a ELSE a

\* ------------------------------------------------------------ c_char arrays
Arr(head, fill, cap) == [head |-> head, fill |-> fill, cap |-> cap]

\* The byte at 0-based position i of the array.
At(a, i) == IF i < Len(a.head) THEN a.head[i + 1] ELSE a.fill

\* Position (1-based) of the first zero byte of a byte sequence, 0 if none.
RECURSIVE FirstZero(_, _)
FirstZero(s, i) ==
    IF i > Len(s) THEN 0
    ELSE IF s[i] = 0 THEN i
    ELSE FirstZero(s, i + 1)

\* Reading a c_char array field of a ctypes Structure yields the bytes
\* before the first NUL byte, and the whole array when it holds none.
CharArrayValue(a) ==
    LET z == FirstZero(a.head, 1) IN
    IF z > 0 THEN SubSeq(a.head, 1, z - 1)
    ELSE IF a.fill = 0 \/ Len(a.head) >= a.cap THEN SubSeq(a.head, 1, Min(Len(a.head), a.cap))
    ELSE [i \in 1..a.cap |-> At(a, i - 1)]

\* bytes[:n] for n >= 0
Slice(bs, n) == SubSeq(bs, 1, Min(n, Len(bs)))

\* ----------------------------------------------------------- repr of bytes
HexDigits == <<"0", "1", "2", "3", "4", "5", "6", "7",
               "8", "9", "a", "b", "c", "d", "e", "f">>

\* The characters of codes 32..126 (code 96, the grave accent, has no TLA+
\* string literal and is written GRAVE).
Printable ==
    <<" ", "!", "\"", "#", "$", "%", "&", "'", "(", ")", "*", "+", ",", "-", ".", "/",
      "0", "1", "2", "3", "4", "5", "6", "7", "8", "9", ":", ";", "<", "=", ">", "?",
      "@", "A", "B", "C", "D", "E", "F", "G", "H", "I", "J", "K", "L", "M", "N", "O",
      "P", "Q", "R", "S", "T", "U", "V", "W", "X", "Y", "Z", "[", "\\", "]", "^", "_",
      "GRAVE", "a", "b", "c", "d", "e", "f", "g", "h", "i", "j", "k", "l", "m", "n", "o",
      "p", "q", "r", "s", "t", "u", "v", "w", "x", "y", "z", "{", "|", "}", "~">>

Range(s) == {s[i] : i \in 1..Len(s)}

\* The quote character repr() chooses: double quotes when the bytes hold a
\* single quote and no double quote.
QuoteOf(bs) == IF 39 \in Range(bs) /\ 34 \notin Range(bs) THEN 34 ELSE 39

\* Variant of the escaping: a line feed is written as it is.
ByteReprLF(b, q) == IF b = 10 THEN "\n" ELSE Printable[((b - 32) % 95) + 1]

\* The characters repr() writes for one byte (one string per byte).
ByteRepr(b, q) ==
    IF b = q \/ b = 92 THEN "\\" \o Printable[b - 31]
    ELSE IF b = 9 THEN "\\t"
    ELSE IF b = 10 THEN "\\n"
    ELSE IF b = 13 THEN "\\r"
    ELSE IF b < 32 \/ b >= 127
         THEN "\\x" \o HexDigits[(b \div 16) + 1] \o HexDigits[(b % 16) + 1]
    ELSE Printable[b - 31]

\* repr(bytes): b, the opening quote, one item per byte, the closing quote.
BytesRepr(bs) ==
    LET q == QuoteOf(bs) IN
    <<"b", Printable[q - 31]>> \o [i \in 1..Len(bs) |-> ByteRepr(bs[i], q)]
        \o <<Printable[q - 31]>>

\* ------------------------------------------------------ 64-bit identifiers
\* Variant of the shift: by 16 bits instead of 32.
Shr16(x) == <<0, x[1], x[2], x[3]>>

Shr32(x) == <<0, 0, x[1], x[2]>>
And32(x) == <<0, 0, x[3], x[4]>>

\* A c_uint (u32) field has the same representation, its two high limbs 0.
U32(n) == <<0, 0, n \div 65536, n % 65536>>

\* x >= y for 64-bit values.
GreaterEq(x, y) ==
    \/ x[1] > y[1]
    \/ x[1] = y[1] /\ x[2] > y[2]
    \/ x[1] = y[1] /\ x[2] = y[2] /\ x[3] > y[3]
    \/ x[1] = y[1] /\ x[2] = y[2] /\ x[3] = y[3] /\ x[4] >= y[4]

\* min(x, m) for a 32-bit x and an m below 2^16: where the slice [:x] of a
\* sequence of at most m items ends.
SliceEnd(x, m) == IF GreaterEq(x, U32(m)) THEN m ELSE x[4]

\* -------------------------------------------------------------- printevent
\* EVENT_TYPES[event.etype]: Python indexing, negative indices count from
\* the end, anything else raises IndexError.
ValidIndex(etype) == etype \in (0 - Len(EVENT_TYPES))..(Len(EVENT_TYPES) - 1)
\* Variant of the list: its two names in the other order.
TypeNameSwapped(etype) ==
    LET names == <<EVENT_TYPES[2], EVENT_TYPES[1]>> IN
    IF etype >= 0 THEN names[etype + 1]
    ELSE names[Len(names) + etype + 1]

TypeName(etype) ==
    IF etype >= 0 THEN EVENT_TYPES[etype + 1]
    ELSE EVENT_TYPES[Len(EVENT_TYPES) + etype + 1]

\* The header line printed by the first print() of printevent.
HeaderLine(event, currenttime) ==
    <<"<", TypeName(event.etype),
      " pid=", Shr32(event.pidtgid),
      " tid=", And32(event.pidtgid),
      " time=", currenttime,
      " rawtime=", event.rawtime,
      " cgid=", event.cgid,
      " inode=", event.inode,
      " pidtgid=", event.pidtgid,
      " nsid=", event.nsid,
      " comm=", BytesRepr(CharArrayValue(event.comm)),
      " len=", event.len,
      ">">>

\* The payload line printed by the second print() of printevent.
PayloadLine(event) ==
    BytesRepr(Slice(CharArrayValue(event.buf), SliceEnd(event.len, event.buf.cap)))

\* ------------------------------------------------------------ text widths
\* Number of characters str() writes for an int.
DecInt(n) ==
    LET m == IF n < 0 THEN 0 - n ELSE n IN
    (IF n < 0 THEN 2 ELSE 1)
        + Cardinality({k \in {10, 100, 1000, 10000, 100000, 1000000, 10000000,
                              100000000, 1000000000} : m >= k})

\* The powers of ten from 10 to 10^19 as 64-bit values.
Pow10 ==
    <<<<0, 0, 0, 10>>,
      <<0, 0, 0, 100>>,
      <<0, 0, 0, 1000>>,
      <<0, 0, 0, 10000>>,
      <<0, 0, 1, 34464>>,
      <<0, 0, 15, 16960>>,
      <<0, 0, 152, 38528>>,
      <<0, 0, 1525, 57600>>,
      <<0, 0, 15258, 51712>>,
      <<0, 2, 21515, 58368>>,
      <<0, 23, 18550, 59392>>,
      <<0, 232, 54437, 4096>>,
      <<0, 2328, 20082, 40960>>,
      <<0, 23283, 4218, 16384>>,
      <<3, 36222, 42182, 32768>>,
      <<35, 34546, 28609, 0>>,
      <<355, 17784, 23946, 0>>,
      <<3552, 46771, 42852, 0>>,
      <<35527, 8964, 35304, 0>>>>

\* Number of characters str() writes for a 64-bit value.
DecU64(x) == 1 + Cardinality({k \in 1..Len(Pow10) : GreaterEq(x, Pow10[k])})

\* Number of characters of one item of a repr.
TokenWidth(t) == IF t = "GRAVE" THEN 1 ELSE Len(t)

\* Number of characters of a repr (items are one to four characters long).
TokensWidth(ts) ==
    LET n(k) == Cardinality({i \in 1..Len(ts) : TokenWidth(ts[i]) = k})
    IN  n(1) + 2 * n(2) + 3 * n(3) + 4 * n(4)

\* Number of characters str() writes for a time of x ticks, 64 * x ns:
\* 64 * m >= 10^k exactly when m is at least 10^k / 64 rounded up.
DecNs(x) ==
    LET m == IF x < 0 THEN 0 - x ELSE x IN
    (IF x < 0 THEN 2 ELSE 1)
        + Cardinality({k \in {1, 2, 16, 157, 1563, 15625, 156250, 1562500,
                              15625000, 156250000, 1562500000} : m >= k})

\* Number of characters str() writes for the wall-clock value x: Epoch +
\* 64 * x ns, which has 19 digits for every x when Epoch is 18 * 10^17.
DecWall(ep, x) == IF ep = "unix0" THEN DecNs(x) ELSE 19

\* Number of characters of the header line, its line feed not counted;
\* time and rawtime are printed in ns.
HeaderWidth(ep, event, currenttime) ==
    Len("<") + Len(TypeName(event.etype))
    + Len(" pid=") + DecU64(Shr32(event.pidtgid))
    + Len(" tid=") + DecU64(And32(event.pidtgid))
    + Len(" time=") + DecWall(ep, currenttime)
    + Len(" rawtime=") + DecNs(event.rawtime)
    + Len(" cgid=") + DecU64(event.cgid)
    + Len(" inode=") + DecInt(event.inode)
    + Len(" pidtgid=") + DecU64(event.pidtgid)
    + Len(" nsid=") + DecU64(event.nsid)
    + Len(" comm=") + TokensWidth(BytesRepr(CharArrayValue(event.comm)))
    + Len(" len=") + DecU64(event.len)
    + Len(">")

\* Number of characters of the payload line, its line feed not counted.
PayloadWidth(event) == TokensWidth(PayloadLine(event))

\* ------------------------------------------------------------- calibration
\* float(x) for a wall-clock value x: exact below 2^53 ns, the nearest
\* double (ties to the even one) in [2^60, 2^61) ns.
ToDouble(ep, x) ==
    IF ep = "unix0" THEN x
    ELSE LET r == x % DOUBLE_STEP
             lo == x - r
         IN  IF 2 * r < DOUBLE_STEP THEN lo
             ELSE IF 2 * r > DOUBLE_STEP THEN lo + DOUBLE_STEP
             ELSE IF (lo \div DOUBLE_STEP) % 2 = 0 THEN lo
             ELSE lo + DOUBLE_STEP

\* calculateclockoffset(): the two clocks are read one after the other.
calculateclockoffset(wallclocktime, monotonictime) ==
    [clockoffset |-> wallclocktime - monotonictime, lastupdate |-> wallclocktime]

\* The condition of the if statement of calibratetime; lastupdate +
\* UPDATE_INTERVAL is a float addition, the comparisons are exact.
NeedsUpdate(ep, wallclocktime, calibratedtime, lastupdate) ==
    \/ wallclocktime > ToDouble(ep, lastupdate) + UPDATE_INTERVAL
    \/ Abs(wallclocktime - calibratedtime) > DRIFT_THRESHOLD

\* Variants of the returned value: the offset left out, the subtraction
\* turned around.
CalibratedTimeRaw(rawtime, clockoffset) == rawtime
CalibratedTimeNeg(rawtime, clockoffset) == clockoffset - rawtime

\* The value calibratetime returns.
CalibratedTime(rawtime, clockoffset) == rawtime + clockoffset

\* ----------------------------------------------------------------- records
NoData == [id |-> 0]

U64(a, b, c, d) == <<a, b, c, d>>

\* A well-formed record as the receive probe submits it.
BaseRecord ==
    [id |-> 0, size |-> EVENT_SIZE, rawtime |-> 0,
     cgid |-> U64(0, 0, 0, 1), inode |-> 2,
     pidtgid |-> U64(0, 4242, 0, 7), nsid |-> U64(0, 0, 61440, 0),
     comm |-> Arr(<<98, 97, 115, 104>>, 0, TASK_COMM_LEN),
     buf |-> Arr(<<108, 115, 10>>, 0, PAGE_SIZE),
     len |-> U32(3), etype |-> 0]

\* The records the two probes submit, which are the records the poll
\* hands to handleevent: each is a whole struct event_t (lines 107-109 and
\* 160-162) with a len of at most PAGE_SIZE - 1 (lines 113 and 166) and an
\* etype of OUTPUT or INPUT (lines 199 and 139).  The samples are a record
\* of the receive path, a write of the bytes a, NUL, b and a write to the
\* process's own terminal.
RawRecords(self) ==
    { BaseRecord,
      [BaseRecord EXCEPT !.etype = 1, !.buf = Arr(<<97, 0, 98>>, 0, PAGE_SIZE)],
      [BaseRecord EXCEPT !.etype = 1, !.inode = self] }

\* A record that is no struct event_t as the probes fill it.
Malformed(r) ==
    \/ r.size < EVENT_SIZE
    \/ GreaterEq(r.len, U32(PAGE_SIZE))
    \/ r.etype \notin {0, 1}

\* ------------------------------------------------------------ kernel probes
\* a < b for unsigned long operands: an int operand is converted first, so
\* a negative one becomes a value above every page size.  PAGE_SIZE is an
\* unsigned long in <asm/page.h>.
ULess(a, b) == a >= 0 /\ a < b

\* Variant of the size computation: clamped to PAGE_SIZE.
ProbeSizeOff(count) == IF ULess(count, PAGE_SIZE) THEN count ELSE PAGE_SIZE

\* int size = count < PAGE_SIZE - 1 ? count : PAGE_SIZE - 1;
ProbeSize(count) == IF ULess(count, PAGE_SIZE - 1) THEN count ELSE PAGE_SIZE - 1

\* bpf_probe_read_user / bpf_probe_read_kernel that succeeds: the first n
\* bytes of the array become the first n bytes of the source.
ReadInto(a, n, src) ==
    Arr([i \in 1..(IF n > Len(a.head) THEN n ELSE Len(a.head)) |->
            IF i <= n THEN At(src, i - 1) ELSE a.head[i]],
        a.fill, a.cap)

\* a[pos] = b; a position outside the array leaves the array as it is.
Store(a, pos, b) ==
    IF pos < 0 \/ pos >= a.cap THEN a
    ELSE Arr([i \in 1..(IF pos + 1 > Len(a.head) THEN pos + 1 ELSE Len(a.head)) |->
                 IF i = pos + 1 THEN b ELSE At(a, i - 1)],
             a.fill, a.cap)

\* What ringbuf_reserve returns on success: memory that holds whatever was
\* there before, here the byte j everywhere.
Reserved(j) ==
    [id |-> 0, size |-> EVENT_SIZE, rawtime |-> j,
     cgid |-> <<j, j, j, j>>, inode |-> j,
     pidtgid |-> <<j, j, j, j>>, nsid |-> <<j, j, j, j>>,
     comm |-> Arr(<<>>, j, TASK_COMM_LEN),
     buf |-> Arr(<<>>, j, PAGE_SIZE),
     len |-> U32(j), etype |-> j]

\* The fields both probes assign before ringbuf_submit.
EventFields == {"nsid", "rawtime", "cgid", "inode", "pidtgid", "etype", "comm", "len"}

\* Variant of the failure path: the reservation is not given back.
ReleaseOnFailLeak(log) == log

\* events.ringbuf_discard(data, 0) on the failure path of the payload read.
ReleaseOnFail(log) == Append(log, "discard")

\* No probe is running.
KpIdle ==
    [ppc |-> "idle", kind |-> "none", eligible |-> FALSE, hasbuf |-> FALSE,
     count |-> 0, src |-> Arr(<<>>, 0, 0), ino |-> 0, nsok |-> FALSE,
     rawtime |-> 0, size |-> 0, event |-> [id |-> 0], set |-> {}, log |-> <<>>]

\* ------------------------------------------------------------------- state
VARIABLES
    pc,             \* position of the main thread
    running,        \* the global flag
    pending,        \* a signal was received and its Python handler has not run yet
    sigcount,       \* number of signals sent to the process
    epoch,          \* "unix0" or "now": where the wall clock stands
    mono,           \* CLOCK_MONOTONIC
    skew,           \* wall clock minus CLOCK_MONOTONIC
    selfinode,      \* inode of the device behind the process's stdout
    clockoffset,    \* closure variable of calibratetime
    lastupdate,     \* closure variable of calibratetime
    ring,           \* records submitted to the ring buffer and not consumed
    nrecv,          \* number of records submitted so far
    data,           \* the record handleevent is working on
    wallclocktime,  \* local of handleevent
    currenttime,    \* local of handleevent
    stdoutbuf,      \* buffer size of sys.stdout.buffer; 0: no block buffering
    outbuf,         \* lines written to sys.stdout and still in its buffers
    sink,           \* lines that have reached the file behind sys.stdout
    eolheld,        \* the line feed of the last line of the sink is still buffered
    stderr,         \* ids of the records whose callback raised
    delivered,      \* history: records handed to handleevent, in order
    accepted,       \* history: ids that passed the test of running
    hit,            \* history: ids being processed when a signal arrived
    calls,          \* history: one entry per call of calibratetime
    kp              \* the execution of a kernel probe that is under way

vars == <<pc, running, pending, sigcount, epoch, mono, skew, selfinode,
          clockoffset, lastupdate, ring, nrecv, data, wallclocktime, currenttime,
          stdoutbuf, outbuf, sink, eolheld, stderr, delivered, accepted, hit,
          calls, kp>>

clockvars == <<epoch, mono, skew, selfinode>>
calibvars == <<clockoffset, lastupdate>>
outvars == <<outbuf, sink, eolheld, stderr>>
histvars == <<delivered, accepted, hit, calls>>
localvars == <<data, wallclocktime, currenttime>>
sigvars == <<running, pending, sigcount>>

Signals == {"SIGINT", "SIGTERM"}
SelfInodes == {1}
\* Wall clock minus monotonic clock as the process starts.
StartSkews == {3}
InCallback == {"h_wall", "h_calib", "h_header", "h_payload", "h_flush"}
Attached == {"loop", "call", "wait", "poll", "h_check"} \cup InCallback

\* ------------------------------------------------------------ small helpers
\* sys.stdout is a TextIOWrapper over a BufferedWriter.  The wrapper keeps
\* up to CHUNK_SIZE characters pending; the writer has a buffer of the
\* block size of the file.  A stream is written as items: the text of a
\* line, then its line feed.
CHUNK_SIZE == 8192
Eol == [id |-> 0, kind |-> "eol", text |-> <<>>, width |-> 1]

\* The items of buffered lines; a held line feed comes first.
ItemsOf(held, ls) ==
    (IF held THEN <<Eol>> ELSE <<>>)
        \o [i \in 1..(2 * Len(ls)) |-> IF i % 2 = 1 THEN ls[(i + 1) \div 2] ELSE Eol]

\* The lines whose text is among the items.
TextsOf(items) == SelectSeq(items, LAMBDA t : t.kind # "eol")

\* Number of characters of the first n items, and of all of them.
RECURSIVE WidthTo(_, _)
WidthTo(items, n) == IF n = 0 THEN 0 ELSE items[n].width + WidthTo(items, n - 1)
WidthOf(items) == WidthTo(items, Len(items))

\* BufferedWriter.write of everything pending: it is buffered when it
\* fits; otherwise the buffer is written out, and then the data as well
\* when it is larger than the buffer.
BufferedWrite(st, bs) ==
    LET n == WidthOf(st.pend) IN
    IF n <= bs - WidthOf(st.held)
    THEN [out |-> st.out, held |-> st.held \o st.pend, pend |-> <<>>]
    ELSE IF n > bs
    THEN [out |-> st.out \o st.held \o st.pend, held |-> <<>>, pend |-> <<>>]
    ELSE [out |-> st.out \o st.held, held |-> st.pend, pend |-> <<>>]

\* TextIOWrapper.write of one item: what is pending is passed on first
\* when the item would take it over CHUNK_SIZE, and again afterwards when
\* CHUNK_SIZE is reached.
TextWrite(st, item, bs) ==
    LET s1 == IF WidthOf(st.pend) + item.width > CHUNK_SIZE
              THEN BufferedWrite(st, bs) ELSE st
        s2 == [s1 EXCEPT !.pend = Append(@, item)]
    IN  IF WidthOf(s2.pend) >= CHUNK_SIZE THEN BufferedWrite(s2, bs) ELSE s2

\* print(line): the text and the line feed are written.  On a terminal
\* and on an unbuffered stream the line feed pushes everything out.
\* Otherwise the stream starts with `buffer` pending (s0), takes the text
\* (s1) and then the line feed (st).
printline(flushed, held, buffer, line, bs) ==
    IF bs = 0
    THEN [sink |-> flushed \o buffer \o <<line>>, eolheld |-> FALSE, outbuf |-> <<>>]
    ELSE CHOOSE r \in
             {[sink |-> flushed \o TextsOf(st.out),
               eolheld |-> IF st.out = <<>> THEN held
                           ELSE st.out[Len(st.out)].kind # "eol",
               outbuf |-> TextsOf(st.held \o st.pend)] :
                  st \in {TextWrite(s1, Eol, bs) :
                      s1 \in {TextWrite(s0, line, bs) :
                          s0 \in {[out |-> <<>>, held |-> <<>>,
                                   pend |-> ItemsOf(held, buffer)]}}}} : TRUE

\* Variant of the flush: only the first buffered line reaches the sink.
FlushFirst(flushed, buffer) == flushed \o SubSeq(buffer, 1, Min(1, Len(buffer)))

\* Variant of the flush: the newest lines land in front of the older ones.
FlushFront(flushed, buffer) == buffer \o flushed

\* sys.stdout.flush(): everything buffered reaches the sink, in order.
Flush(flushed, buffer) == flushed \o buffer

\* Variant of the handler: the flag is flipped instead of cleared.
handleinterruptToggle(run) == ~run

\* handleinterrupt: the new value of running.
handleinterrupt(run) == FALSE

\* Variant of the return from the handler: the callback that was running
\* is abandoned, as an exception raised by the handler would do.
ResumeAbort(p) == IF p \in {"h_wall", "h_calib", "h_header", "h_payload", "h_flush"}
                  THEN "poll" ELSE p

\* Where the main thread continues after handleinterrupt returns.
ResumeAt(p) == p

\* Variant: the handler of a pending signal is never run.
AfterPendingLost(run, pend) == run

\* The value of running once the Python handler of a pending signal has run.
AfterPending(run, pend) == IF pend THEN handleinterrupt(run) ELSE run

\* ------------------------------------------------------------------- Init
\* The state after lines 248-250: calibratetimefactory() has read the clocks
\* and running is True; the signal handlers are not installed yet.
InitOn(epochs, buffers) ==
    /\ pc = "install"
    /\ running = TRUE
    /\ pending = FALSE
    /\ sigcount = 0
    /\ epoch \in epochs
    /\ mono = 0
    /\ skew \in StartSkews
    /\ selfinode \in SelfInodes
    /\ clockoffset = calculateclockoffset(skew, 0).clockoffset
    /\ lastupdate = calculateclockoffset(skew, 0).lastupdate
    /\ ring = <<>>
    /\ nrecv = 0
    /\ data = NoData
    /\ wallclocktime = 0
    /\ currenttime = 0
    /\ stdoutbuf \in buffers
    /\ outbuf = <<>>
    /\ sink = <<>>
    /\ eolheld = FALSE
    /\ stderr = <<>>
    /\ delivered = <<>>
    /\ accepted = {}
    /\ hit = {}
    /\ calls = <<>>
    /\ kp = KpIdle

\* ---------------------------------------------------------------- startup
\* Line 268: handleinterrupt becomes the handler of SIGINT.
InstallSigint ==
    /\ pc = "install"
    /\ pc' = "install_term"
    /\ UNCHANGED <<sigvars, clockvars, calibvars, ring, nrecv, localvars,
                   outvars, histvars>>
    /\ UNCHANGED <<kp, stdoutbuf>>

\* Line 269: handleinterrupt becomes the handler of SIGTERM.
InstallSigterm ==
    /\ pc = "install_term"
    /\ pc' = "attach"
    /\ UNCHANGED <<sigvars, clockvars, calibvars, ring, nrecv, localvars,
                   outvars, histvars>>
    /\ UNCHANGED <<kp, stdoutbuf>>


\* Lines 271-273.
Attach ==
    /\ pc = "attach"
    /\ pc' = "loop"
    /\ UNCHANGED <<sigvars, clockvars, calibvars, ring, nrecv, localvars,
                   outvars, histvars>>
    /\ UNCHANGED <<kp, stdoutbuf>>


\* ---------------------------------------------------------------- transport
\* The instrumentation layer submits a record after `d` ticks have passed;
\* its rawtime was taken `lag` ticks before.
Deliver(recs, elapsed, lags) ==
    /\ pc \in Attached
    /\ nrecv < MaxRecords
    /\ Len(ring) < MaxRing
    /\ \E r \in recs, d \in elapsed, lag \in lags :
          /\ mono + d <= MaxMono
          /\ lag <= mono + d
          /\ mono' = mono + d
          /\ ring' = Append(ring, [r EXCEPT !.id = nrecv + 1,
                                            !.rawtime = mono + d - lag])
    /\ nrecv' = nrecv + 1
    /\ UNCHANGED <<pc, sigvars, epoch, skew, selfinode, calibvars, localvars,
                   outvars, histvars>>
    /\ UNCHANGED <<kp, stdoutbuf>>


\* --------------------------------------------------------------- poll loop
\* Line 275: while running.
LoopTest ==
    /\ pc = "loop"
    /\ pc' = IF running THEN "call" ELSE "done"
    /\ UNCHANGED <<sigvars, clockvars, calibvars, ring, nrecv, localvars,
                   outvars, histvars>>
    /\ UNCHANGED <<kp, stdoutbuf>>


\* Lines 276-277: the call of ring_buffer_poll() leaves the interpreter
\* and starts to wait.
PollEnter ==
    /\ pc = "call"
    /\ pc' = "wait"
    /\ UNCHANGED <<sigvars, clockvars, calibvars, ring, nrecv, localvars,
                   outvars, histvars>>
    /\ UNCHANGED <<kp, stdoutbuf>>

\* Line 277: ring_buffer_poll() finds a record and calls handleevent on it;
\* a pending Python signal handler runs as the callback starts.
Dispatch ==
    /\ pc \in {"wait", "poll"}
    /\ ring # <<>>
    /\ data' = Head(ring)
    /\ ring' = Tail(ring)
    /\ delivered' = Append(delivered, Head(ring))
    /\ running' = AfterPending(running, pending)
    /\ pending' = FALSE
    /\ pc' = "h_check"
    /\ UNCHANGED <<sigcount, clockvars, calibvars, nrecv, wallclocktime,
                   currenttime, outvars, accepted, hit, calls>>
    /\ UNCHANGED <<kp, stdoutbuf>>


\* Line 277: ring_buffer_poll() has consumed every record and returns.
PollReturn ==
    /\ pc = "poll"
    /\ ring = <<>>
    /\ running' = AfterPending(running, pending)
    /\ pending' = FALSE
    /\ pc' = "loop"
    /\ UNCHANGED <<sigcount, clockvars, calibvars, ring, nrecv, localvars,
                   outvars, histvars>>
    /\ UNCHANGED <<kp, stdoutbuf>>


\* ------------------------------------------------------------- handleevent
\* The except KeyboardInterrupt clauses (lines 261 and 278) have no action:
\* once line 268 has replaced the SIGINT handler nothing raises it.
\* Variant of the test of line 255: every record is processed.
PassesCheckAlways(run) == TRUE

\* The test of line 255: the record is processed when the flag is set.
PassesCheck(run) == run

\* Line 255: if running.
HCheck ==
    /\ pc = "h_check"
    /\ IF PassesCheck(running)
       THEN /\ pc' = "h_wall"
            /\ accepted' = accepted \cup {data.id}
            /\ data' = data
       ELSE /\ pc' = "poll"
            /\ accepted' = accepted
            /\ data' = NoData
    /\ UNCHANGED <<sigvars, clockvars, calibvars, ring, nrecv, wallclocktime,
                   currenttime, outvars, delivered, hit, calls>>
    /\ UNCHANGED <<kp, stdoutbuf>>


\* Lines 256-258: the wall clock is read, `d` ticks after the last clock
\* event and after an adjustment `j` of the wall clock.
HWall(elapsed, jumps) ==
    /\ pc = "h_wall"
    /\ \E d \in elapsed, j \in jumps :
          /\ mono + d <= MaxMono
          /\ mono + d + skew + j >= 0
          /\ mono' = mono + d
          /\ skew' = skew + j
          /\ wallclocktime' = mono + d + skew + j
    /\ pc' = "h_calib"
    /\ UNCHANGED <<sigvars, epoch, selfinode, calibvars, ring, nrecv, data,
                   currenttime, outvars, histvars>>
    /\ UNCHANGED <<kp, stdoutbuf>>


\* Line 259, lines 237-244: calibratetime(rawtime, wallclocktime); when it
\* updates, the monotonic clock is read `g` ticks after the wall clock.
HCalib(gaps) ==
    /\ pc = "h_calib"
    /\ LET calibratedtime == CalibratedTime(data.rawtime, clockoffset)
           update == NeedsUpdate(epoch, wallclocktime, calibratedtime, lastupdate)
       IN  /\ currenttime' = calibratedtime
           /\ \E g \in gaps :
                 LET new == calculateclockoffset(mono + skew, mono + g) IN
                 /\ mono' = IF update THEN mono + g ELSE mono
                 /\ clockoffset' = IF update THEN new.clockoffset ELSE clockoffset
                 /\ lastupdate' = IF update THEN new.lastupdate ELSE lastupdate
                 /\ calls' = Append(calls,
                        [id |-> data.id, rawtime |-> data.rawtime,
                         wallclocktime |-> wallclocktime,
                         clockoffset |-> clockoffset, lastupdate |-> lastupdate,
                         returned |-> calibratedtime,
                         updates |-> IF update THEN 1 ELSE 0,
                         newoffset |-> IF update THEN new.clockoffset ELSE clockoffset,
                         newlastupdate |-> IF update THEN new.lastupdate ELSE lastupdate])
    /\ pc' = "h_header"
    /\ UNCHANGED <<sigvars, epoch, skew, selfinode, ring, nrecv, data,
                   wallclocktime, outvars, delivered, accepted, hit>>
    /\ UNCHANGED <<kp, stdoutbuf>>


\* The stream after the first print() of printevent.
PrintedHeader ==
    printline(sink, eolheld, outbuf,
              [id |-> data.id, kind |-> "header",
               text |-> HeaderLine(data, currenttime),
               width |-> HeaderWidth(epoch, data, currenttime)],
              stdoutbuf)

\* The stream after the second print() of printevent.
PrintedPayload ==
    printline(sink, eolheld, outbuf,
              [id |-> data.id, kind |-> "payload",
               text |-> PayloadLine(data),
               width |-> PayloadWidth(data)],
              stdoutbuf)

\* What ring_buffer_poll() reads as the result of a callback that ended
\* with an exception: the result is not set, so it is any int; the poll
\* goes on after one that is not negative and ends at once after a
\* negative one.
UnsetResults == {-1, 0}

\* Lines 209-223 of printevent: the header is formatted and printed; an
\* etype that is no index of EVENT_TYPES raises IndexError, which no except
\* clause of handleevent catches: the callback ends with a traceback on
\* stderr.  ring_buffer_poll() then goes on to the next record or returns
\* to line 275 with the records that are left still in the ring buffer
\* (no signal is pending at that return: inside a callback the handler
\* runs at once).
HHeader ==
    /\ pc = "h_header"
    /\ IF ValidIndex(data.etype)
       THEN /\ sink' = PrintedHeader.sink
            /\ eolheld' = PrintedHeader.eolheld
            /\ outbuf' = PrintedHeader.outbuf
            /\ pc' = "h_payload"
            /\ UNCHANGED <<stderr, localvars>>
       ELSE /\ stderr' = Append(stderr, data.id)
            /\ \E ret \in UnsetResults : pc' = IF ret < 0 THEN "loop" ELSE "poll"
            /\ data' = NoData
            /\ wallclocktime' = 0
            /\ currenttime' = 0
            /\ UNCHANGED <<outbuf, sink, eolheld>>
    /\ UNCHANGED <<sigvars, clockvars, calibvars, ring, nrecv, histvars>>
    /\ UNCHANGED <<kp, stdoutbuf>>


\* Line 224 of printevent.
HPayload ==
    /\ pc = "h_payload"
    /\ sink' = PrintedPayload.sink
    /\ eolheld' = PrintedPayload.eolheld
    /\ outbuf' = PrintedPayload.outbuf
    /\ pc' = "h_flush"
    /\ UNCHANGED <<sigvars, clockvars, calibvars, ring, nrecv, localvars,
                   stderr, histvars>>
    /\ UNCHANGED <<kp, stdoutbuf>>


\* Line 225 of printevent, then handleevent returns.
HFlush ==
    /\ pc = "h_flush"
    /\ sink' = Flush(sink, outbuf)
    /\ outbuf' = <<>>
    /\ eolheld' = FALSE
    /\ pc' = "poll"
    /\ data' = NoData
    /\ wallclocktime' = 0
    /\ currenttime' = 0
    /\ UNCHANGED <<sigvars, clockvars, calibvars, ring, nrecv, stderr, histvars>>
    /\ UNCHANGED <<kp, stdoutbuf>>


\* ------------------------------------------------------------------ signals
\* SIGINT or SIGTERM is sent to the process.
\*  - a signal whose handler is not installed yet (both before line 268,
\*    SIGTERM before line 269) ends the process;
\*  - while the main thread runs Python code, handleinterrupt runs before
\*    its next step; this includes the code between the test of line 275
\*    and the entry into ring_buffer_poll() (pc = "call"), which then goes
\*    on to wait;
\*  - while it is blocked in the wait of ring_buffer_poll(), the wait is
\*    interrupted and the handler runs as the call returns, unless the
\*    signal came in just before the wait was entered, when it stays pending;
\*  - while ring_buffer_poll() runs between two callbacks, it stays pending.
Signal ==
    /\ sigcount < MaxSignals
    /\ pc \notin {"done", "killed"}
    /\ sigcount' = sigcount + 1
    /\ \E sig \in Signals :
        \/ /\ pc = "install" \/ (pc = "install_term" /\ sig = "SIGTERM")
           /\ pc' = "killed"
           /\ UNCHANGED <<running, pending, hit>>
        \/ /\ \/ pc \in {"attach", "loop", "call", "h_check"} \cup InCallback
              \/ pc = "install_term" /\ sig = "SIGINT"
           /\ running' = handleinterrupt(running)
           /\ pc' = ResumeAt(pc)
           /\ hit' = IF pc \in InCallback THEN hit \cup {data.id} ELSE hit
           /\ UNCHANGED pending
        \/ /\ pc = "wait"
           /\ running' = handleinterrupt(running)
           /\ pending' = FALSE
           /\ pc' = "loop"
           /\ UNCHANGED hit
        \/ /\ pc \in {"wait", "poll"}
           /\ pending' = TRUE
           /\ UNCHANGED <<pc, running, hit>>
    /\ UNCHANGED <<clockvars, calibvars, ring, nrecv, localvars, outvars,
                   delivered, accepted, calls>>
    /\ UNCHANGED <<kp, stdoutbuf>>


\* ------------------------------------------------------------ probe steps
\* One execution of kprobe__tty_write or kprobe__n_tty_receive_buf_common
\* is followed from its entry to its return.
ProbeKinds == {"tty_write", "receive"}
\* The requested byte count: a size_t on the write path, an int on the
\* receive path.
ProbeCounts(kind) ==
    {0, 1, 3, PAGE_SIZE - 2, PAGE_SIZE - 1, PAGE_SIZE, 100000}
        \cup (IF kind = "receive" THEN {-1} ELSE {})
\* The bytes behind the pointer the probe is given.
ProbeSource == Arr(<<108, 115, 10>>, 120, 100000)
\* The inode number the probe finds; none (0) on the receive path when the
\* tty has no file behind driver_data.
ProbeInodes(kind) == IF kind = "receive" THEN {0, 2} ELSE {2}
Junk == {0, 255}

\* Lines 82 and 154: the probe is entered and reads the clock.
KEnter ==
    /\ pc \in Attached
    /\ kp.ppc = "idle"
    /\ nrecv < MaxRecords
    /\ Len(ring) < MaxRing
    /\ \E kind \in ProbeKinds :
       \E el \in (IF kind = "tty_write" THEN BOOLEAN ELSE {TRUE}),
          hb \in BOOLEAN, n \in ProbeCounts(kind), ino \in ProbeInodes(kind),
          ok \in BOOLEAN :
          kp' = [kp EXCEPT !.ppc = "check", !.kind = kind, !.eligible = el,
                           !.hasbuf = hb, !.count = n, !.src = ProbeSource,
                           !.ino = ino, !.nsok = ok, !.rawtime = mono]
    /\ UNCHANGED <<pc, sigvars, clockvars, calibvars, ring, nrecv, localvars,
                   outvars, histvars, stdoutbuf>>

\* Lines 84-105 and 156-158: the early returns before the reservation.
KCheck ==
    /\ kp.ppc = "check"
    /\ LET pass == IF kp.kind = "tty_write"
                   THEN kp.eligible /\ kp.hasbuf /\ kp.count # 0
                   ELSE kp.hasbuf
       IN  kp' = [kp EXCEPT !.ppc = IF pass THEN "reserve" ELSE "returned"]
    /\ UNCHANGED <<pc, sigvars, clockvars, calibvars, ring, nrecv, localvars,
                   outvars, histvars, stdoutbuf>>

\* Lines 107-111 and 160-164: ringbuf_reserve, which fails when the ring
\* buffer has no room.
KReserve ==
    /\ kp.ppc = "reserve"
    /\ \/ \E j \in Junk :
             kp' = [kp EXCEPT !.ppc = "read", !.event = Reserved(j),
                              !.log = Append(@, "reserve")]
       \/ kp' = [kp EXCEPT !.ppc = "returned", !.log = Append(@, "nomem")]
    /\ UNCHANGED <<pc, sigvars, clockvars, calibvars, ring, nrecv, localvars,
                   outvars, histvars, stdoutbuf>>

\* Lines 113-117 and 166-170: the size and the read of the payload, which
\* fails when the source cannot be read.
KRead ==
    /\ kp.ppc = "read"
    /\ LET size == ProbeSize(kp.count) IN
       \/ kp' = [kp EXCEPT !.ppc = "term", !.size = size,
                           !.event.buf = ReadInto(@, size, kp.src)]
       \/ kp' = [kp EXCEPT !.ppc = "returned", !.size = size,
                           !.event = [id |-> 0],
                           !.log = ReleaseOnFail(Append(@, "readfail"))]
    /\ UNCHANGED <<pc, sigvars, clockvars, calibvars, ring, nrecv, localvars,
                   outvars, histvars, stdoutbuf>>

\* Lines 118-119 and 171: the terminator.
KTerminate ==
    /\ kp.ppc = "term"
    /\ kp' = [kp EXCEPT !.ppc = "fields",
                        !.event.buf =
                            IF kp.kind = "receive" \/ ULess(kp.size, PAGE_SIZE)
                            THEN Store(@, kp.size, 0) ELSE @]
    /\ UNCHANGED <<pc, sigvars, clockvars, calibvars, ring, nrecv, localvars,
                   outvars, histvars, stdoutbuf>>

\* Lines 121-141 and 173-201: the fields; a read of the namespace number
\* that fails leaves zero.
KFields ==
    /\ kp.ppc = "fields"
    /\ kp' = [kp EXCEPT !.ppc = "submit",
                        !.event.nsid = IF kp.nsok THEN BaseRecord.nsid
                                       ELSE <<0, 0, 0, 0>>,
                        !.event.rawtime = kp.rawtime,
                        !.event.cgid = BaseRecord.cgid,
                        !.event.inode = kp.ino,
                        !.event.pidtgid = BaseRecord.pidtgid,
                        !.event.etype = IF kp.kind = "tty_write" THEN 1 ELSE 0,
                        !.event.comm = BaseRecord.comm,
                        !.event.len = U32(kp.size),
                        !.set = EventFields]
    /\ UNCHANGED <<pc, sigvars, clockvars, calibvars, ring, nrecv, localvars,
                   outvars, histvars, stdoutbuf>>

\* Lines 143-144 and 203-204: ringbuf_submit and the return.
KSubmit ==
    /\ kp.ppc = "submit"
    /\ ring' = Append(ring, [kp.event EXCEPT !.id = nrecv + 1])
    /\ nrecv' = nrecv + 1
    /\ kp' = [kp EXCEPT !.ppc = "returned", !.event = [id |-> 0],
                        !.log = Append(@, "submit")]
    /\ UNCHANGED <<pc, sigvars, clockvars, calibvars, localvars, outvars,
                   histvars, stdoutbuf>>

\* --------------------------------------------------------- specifications
PipeWaits == {0}
PipeElapsed == {0, DRIFT_THRESHOLD + 1}
PipeLags == {0}
PipeJumps == {0}
PipeGaps == {0}

\* sys.stdout is a terminal or unbuffered (0), or a file or pipe whose
\* block size is 4096.
PipeBuffers == {0, 4096}

Init == InitOn({"now"}, PipeBuffers)

Program ==
    \/ InstallSigint
    \/ InstallSigterm
    \/ Attach
    \/ LoopTest
    \/ PollEnter
    \/ Dispatch
    \/ PollReturn
    \/ HCheck
    \/ HWall(PipeElapsed, PipeJumps)
    \/ HCalib(PipeGaps)
    \/ HHeader
    \/ HPayload
    \/ HFlush

Next ==
    \/ Program
    \/ Deliver(RawRecords(selfinode), PipeWaits, PipeLags)
    \/ Signal

Spec == Init /\ [][Next]_vars

\* The main thread always takes its next step; nothing makes the
\* instrumentation layer submit a record or anybody send a signal.
SpecFair ==
    /\ Spec
    /\ WF_vars(InstallSigint)
    /\ WF_vars(InstallSigterm)
    /\ WF_vars(Attach)
    /\ WF_vars(LoopTest)
    /\ WF_vars(PollEnter)
    /\ WF_vars(Dispatch)
    /\ WF_vars(PollReturn)
    /\ WF_vars(HCheck)
    /\ WF_vars(HWall(PipeElapsed, PipeJumps))
    /\ WF_vars(HCalib(PipeGaps))
    /\ WF_vars(HHeader)
    /\ WF_vars(HPayload)
    /\ WF_vars(HFlush)

\* The calibrator alone: well-formed records, no signal, and the clock
\* readings that reach both thresholds from either side.
CalWaits == {0, UPDATE_INTERVAL, UPDATE_INTERVAL + 1}
CalElapsed == {0, DRIFT_THRESHOLD, DRIFT_THRESHOLD + 1}
CalLags == {0, 1}
CalJumps == {0, 0 - (DRIFT_THRESHOLD + 1)}
CalGaps == {0, 1}

InitCal == InitOn({"unix0", "now"}, {4096})

NextCal ==
    \/ InstallSigint
    \/ InstallSigterm
    \/ Attach
    \/ LoopTest
    \/ PollEnter
    \/ Dispatch
    \/ PollReturn
    \/ HCheck
    \/ HWall(CalElapsed, CalJumps)
    \/ HCalib(CalGaps)
    \/ HHeader
    \/ HPayload
    \/ HFlush
    \/ Deliver({BaseRecord}, CalWaits, CalLags)

SpecCal == InitCal /\ [][NextCal]_vars

\* printevent alone: one event and one calibrated time drawn from the
\* samples below, then the three statements of printevent.
Limbs == {0, 7, 4242, 65535}
ByteSamples == {0, 10, 13, 27, 34, 39, 92, 97, 255}
ByteSeqs == {<<>>} \cup {<<a>> : a \in ByteSamples}
                \cup {<<a, b>> : a \in ByteSamples, b \in ByteSamples}
RenderTimes == {0, 12345}
\* Terminal or unbuffered; a file with a block size of 4096 or of 8192.
RenderBuffers == {0, 4096, 8192}

RenderEvents ==
    {[BaseRecord EXCEPT !.id = 1, !.pidtgid = U64(a, b, c, d)] :
        a \in Limbs, b \in Limbs, c \in Limbs, d \in Limbs}
    \cup {[BaseRecord EXCEPT !.id = 1, !.buf = Arr(h, 0, PAGE_SIZE), !.len = U32(n)] :
        h \in ByteSeqs, n \in {0, 2}}
    \cup {[BaseRecord EXCEPT !.id = 1, !.comm = Arr(h, 0, TASK_COMM_LEN)] : h \in ByteSeqs}
    \cup {[BaseRecord EXCEPT !.id = 1, !.comm = Arr(<<>>, 97, TASK_COMM_LEN)],
          [BaseRecord EXCEPT !.id = 1, !.buf = Arr(<<>>, 10, PAGE_SIZE), !.len = U32(PAGE_SIZE - 1)],
          [BaseRecord EXCEPT !.id = 1, !.buf = Arr(<<97>>, 10, PAGE_SIZE), !.len = U32(PAGE_SIZE - 1)],
          [BaseRecord EXCEPT !.id = 1, !.buf = Arr(<<>>, 10, PAGE_SIZE), !.len = U32(PAGE_SIZE - 2)],
          [BaseRecord EXCEPT !.id = 1, !.buf = Arr(<<>>, 10, PAGE_SIZE), !.len = U32(4027)],
          [BaseRecord EXCEPT !.id = 1, !.buf = Arr(<<97>>, 10, PAGE_SIZE), !.len = U32(4027)]}
    \cup {[BaseRecord EXCEPT !.id = 1, !.etype = e] : e \in -3..2}

InitRender ==
    /\ pc = "h_header"
    /\ running = TRUE
    /\ pending = FALSE
    /\ sigcount = 0
    /\ epoch = "now"
    /\ mono = 0
    /\ skew \in StartSkews
    /\ selfinode \in SelfInodes
    /\ clockoffset = calculateclockoffset(skew, 0).clockoffset
    /\ lastupdate = calculateclockoffset(skew, 0).lastupdate
    /\ ring = <<>>
    /\ nrecv = 1
    /\ data \in RenderEvents
    /\ wallclocktime = 0
    /\ currenttime \in RenderTimes
    /\ stdoutbuf \in RenderBuffers
    /\ outbuf = <<>>
    /\ sink = <<>>
    /\ eolheld = FALSE
    /\ stderr = <<>>
    /\ delivered = <<data>>
    /\ accepted = {1}
    /\ hit = {}
    /\ calls = <<>>
    /\ kp = KpIdle

NextRender ==
    \/ HHeader
    \/ HPayload
    \/ HFlush

SpecRender == InitRender /\ [][NextRender]_vars

\* The probes alone: the program attaches them and one of them runs.
NextProbe ==
    \/ InstallSigint
    \/ InstallSigterm
    \/ Attach
    \/ KEnter
    \/ KCheck
    \/ KReserve
    \/ KRead
    \/ KTerminate
    \/ KFields
    \/ KSubmit

SpecProbe == Init /\ [][NextProbe]_vars

TypeOK ==
    /\ pc \in {"install", "install_term", "attach", "killed", "done"} \cup Attached
    /\ eolheld \in BOOLEAN
    /\ stdoutbuf \in {0, 4096, 8192}
    /\ running \in BOOLEAN
    /\ pending \in BOOLEAN
    /\ sigcount \in 0..MaxSignals
    /\ Len(ring) <= MaxRing
    /\ nrecv \in 0..MaxRecords
    /\ kp.ppc \in {"idle", "check", "reserve", "read", "term", "fields",
                   "submit", "returned"}

\* ------------------------------------------------- vocabulary of the claims
\* Every line written to stdout so far, flushed or not, in order.
Lines == sink \o outbuf

\* The record of a given id among those handed to handleevent.
RecOf(id) == CHOOSE r \in Range(delivered) : r.id = id

\* Positions of the lines of record id in a sequence of lines.
LinesOf(ls, id, kind) == {i \in 1..Len(ls) : ls[i].id = id /\ ls[i].kind = kind}

\* The record was written to the sink in full: one header line followed
\* at once by one payload line, line feeds included.
EmittedOnce(id) ==
    /\ eolheld => sink[Len(sink)].id # id
    /\ Cardinality(LinesOf(sink, id, "header")) = 1
    /\ Cardinality(LinesOf(sink, id, "payload")) = 1
    /\ \A i \in LinesOf(sink, id, "header") : i + 1 \in LinesOf(sink, id, "payload")

\* printevent raises nothing on this record.
Renders(id) == ValidIndex(RecOf(id).etype)

\* Number of payload bytes a payload line represents.
PayloadBytes(line) == Len(line.text) - 3

\* A termination request has been made and not yet lost.
Stopping == ~running \/ pending

\* The number a 32-bit field below 2^31 holds.
Val32(x) == x[3] * 65536 + x[4]

IsPrefix(s, t) == Len(s) <= Len(t) /\ SubSeq(t, 1, Len(s)) = s

\* ---------------------------------------------------------------------- C1
\* C1: no record whose inode is the inode of the process's own output
\* device reaches calibratetime or printevent: no line of it is written.
C1_SelfExclusion ==
    /\ \A i \in 1..Len(Lines) : RecOf(Lines[i].id).inode # selfinode
    /\ \A i \in 1..Len(calls) : RecOf(calls[i].id).inode # selfinode

\* ---------------------------------------------------------------------- C2
\* C2: the payload line of a record with len <= 4095 represents exactly
\* len bytes, whatever the buffer holds (zero bytes included).
C2_PayloadExactLength ==
    \A i \in 1..Len(Lines) :
        (Lines[i].kind = "payload"
            /\ ~GreaterEq(RecOf(Lines[i].id).len, U32(PAGE_SIZE)))
            => PayloadBytes(Lines[i]) = Val32(RecOf(Lines[i].id).len)

\* ---------------------------------------------------------------------- C3
\* C3: a call of calibratetime updates the offset (once) if and only if
\* W > last_calibrated_at + 60 s or |W - (R + offset)| > 1 ms.
C3_RecalibrationTrigger ==
    \A i \in 1..Len(calls) :
        LET c == calls[i] IN
        (c.updates = 1) <=>
            \/ c.wallclocktime > c.lastupdate + UPDATE_INTERVAL
            \/ Abs(c.wallclocktime - (c.rawtime + c.clockoffset)) > DRIFT_THRESHOLD

\* ---------------------------------------------------------------------- C4
\* C4: the time returned for an event, and printed in its header, is its
\* rawtime plus the offset in force when calibratetime was entered; an
\* update made by that call is seen only by the next call, and lines
\* already written never change.
C4_Calls ==
    /\ \A i \in 1..Len(calls) :
          /\ calls[i].returned = calls[i].rawtime + calls[i].clockoffset
          /\ \A k \in LinesOf(Lines, calls[i].id, "header") :
                Lines[k].text[8] = calls[i].rawtime + calls[i].clockoffset
    /\ \A i \in 1..(Len(calls) - 1) :
          /\ calls[i + 1].clockoffset = calls[i].newoffset
          /\ calls[i + 1].lastupdate = calls[i].newlastupdate
    /\ Len(calls) > 0 =>
          \/ pc = "h_header" /\ currenttime = calls[Len(calls)].returned
          \/ /\ clockoffset = calls[Len(calls)].newoffset
             /\ lastupdate = calls[Len(calls)].newlastupdate

C4_CalibratedTime == []C4_Calls /\ [][IsPrefix(Lines, Lines')]_vars

C4_Witness ==
    \E i \in 1..Len(calls) :
        /\ calls[i].updates = 1
        /\ calls[i].newoffset # calls[i].clockoffset
        /\ LinesOf(sink, calls[i].id, "header") # {}
        /\ i < Len(calls)

\* ---------------------------------------------------------------------- C5
\* C5: of two events processed one after the other with non-decreasing
\* rawtime, with no update of the offset between the two computations, the
\* second gets a calibrated time at least as large as the first.
C5_Monotonic ==
    \A i \in 1..(Len(calls) - 1) :
        (calls[i].updates = 0 /\ calls[i].rawtime <= calls[i + 1].rawtime)
            => calls[i].returned <= calls[i + 1].returned

C5_Witness ==
    \E i \in 1..(Len(calls) - 1) :
        /\ calls[i].updates = 0
        /\ calls[i].rawtime < calls[i + 1].rawtime
        /\ calls[i].returned < calls[i + 1].returned
        /\ calls[i].clockoffset # 0

\* ---------------------------------------------------------------------- C6
\* C6: once both handlers are installed (the poll loop and the processing
\* of a record lie behind that point),
\* a termination request that follows another one changes nothing but
\* the request itself: the pipeline keeps stopping, what was written,
\* the record in flight and the calibration state stay as they were, the
\* loop is left once, and every record that was in flight is written once.
C6_State ==
    /\ (sigcount >= 1 /\ pc \notin {"killed", "done"}) => Stopping
    /\ \A id \in accepted : Cardinality(LinesOf(Lines, id, "header")) <= 1
                            /\ Cardinality(LinesOf(Lines, id, "payload")) <= 1
    /\ (sigcount >= 2 /\ pc \in {"loop", "done"}) =>
          \A id \in accepted : Renders(id) => EmittedOnce(id)

C6_SecondSignal ==
    (sigcount >= 1 /\ sigcount' = sigcount + 1 /\ pc \notin {"install", "install_term"}) =>
        /\ Stopping'
        /\ pc' \in {pc, "loop"}
        /\ UNCHANGED <<calibvars, ring, localvars, outvars, accepted, delivered>>

C6_IdempotentShutdown ==
    /\ []C6_State
    /\ [][C6_SecondSignal]_vars
    /\ [][pc = "done" => pc' = "done"]_vars

C6_Witness ==
    /\ sigcount = 2
    /\ pc = "done"
    /\ \E id \in hit : EmittedOnce(id)

\* ---------------------------------------------------------------------- C7
\* C7: a signal that arrives while a record is being processed does not
\* abort it: processing goes on where it was, and by the time the loop
\* tests the flag again both lines of the record are in the sink.
C7_State ==
    pc \in {"loop", "done"} => \A id \in hit : Renders(id) => EmittedOnce(id)

C7_SignalStep ==
    (sigcount' = sigcount + 1 /\ pc \in InCallback) =>
        /\ pc' = pc
        /\ UNCHANGED <<localvars, outvars, calibvars>>

C7_Cooperative == []C7_State /\ [][C7_SignalStep]_vars

C7_Witness ==
    /\ pc = "loop"
    /\ ~running
    /\ \E id \in hit : EmittedOnce(id)

\* ---------------------------------------------------------------------- C8
\* C8: every wait of ring_buffer_poll() ends, records or not, and once a
\* termination request was made the process ends.
C8_BoundedPoll ==
    /\ (pc = "wait") ~> (pc # "wait")
    /\ (sigcount > 0) ~> (pc \in {"done", "killed"})

\* ---------------------------------------------------------------------- C9
\* C9: the records written are, in order, records handed over by the
\* transport, each written as its header followed by its payload, and
\* the consumer holds no record once handleevent has returned.
EmittedIds == LET hs == SelectSeq(Lines, LAMBDA l : l.kind = "header")
              IN  [i \in 1..Len(hs) |-> hs[i].id]

PosIn(seq, id) == CHOOSE k \in 1..Len(seq) : seq[k].id = id

C9_OrderPreserved ==
    /\ \A i \in 1..Len(EmittedIds) : \E k \in 1..Len(delivered) : delivered[k].id = EmittedIds[i]
    /\ \A i, j \in 1..Len(EmittedIds) :
          i < j => PosIn(delivered, EmittedIds[i]) < PosIn(delivered, EmittedIds[j])
    /\ \A i \in 1..Len(Lines) :
          Lines[i].kind = "payload" =>
              i > 1 /\ Lines[i - 1].kind = "header" /\ Lines[i - 1].id = Lines[i].id
    /\ \A i \in 1..Len(delivered) : delivered[i].id = i
    /\ pc \notin (InCallback \cup {"h_check"}) => data = NoData

C9_Witness ==
    /\ Len(EmittedIds) >= 2
    /\ Len(sink) >= 4
    /\ data = NoData

\* --------------------------------------------------------------------- C10
\* C10: a malformed record (short, len over the capacity, etype outside
\* the enumeration) writes nothing, and the well-formed records handed
\* over after it are written as long as no termination was requested.
\* No record the probes submit is malformed (C10_NoneMalformed), so the
\* first case never arises in the program.
C10_MalformedDropped ==
    /\ \A i \in 1..Len(Lines) : ~Malformed(RecOf(Lines[i].id))
    /\ (sigcount = 0 /\ pc \in {"loop", "wait"} /\ ring = <<>>) =>
          \A k \in 1..Len(delivered) :
              ~Malformed(delivered[k]) => EmittedOnce(delivered[k].id)

\* The record a probe has filled and the records it has submitted are
\* well-formed.
C10_NoneMalformed ==
    /\ \A i \in 1..Len(ring) : ~Malformed(ring[i])
    /\ kp.ppc = "submit" => ~Malformed(kp.event)

\* --------------------------------------------------------------------- C11
\* The lifecycle state of section 4.5 read off the program state: STARTING
\* until the ring buffer is opened, then RUNNING or DRAINING after the
\* flag, STOPPED once the loop is left or the process was ended.
Phase ==
    IF pc \in {"install", "install_term", "attach"} THEN "STARTING"
    ELSE IF pc \in {"done", "killed"} THEN "STOPPED"
    ELSE IF running THEN "RUNNING"
    ELSE "DRAINING"

PhaseStep == <<Phase, Phase'>>

\* Nothing of a record is handled by this step.
NoRecordWork == UNCHANGED <<ring, data, delivered, accepted, calls, outbuf, sink,
                            eolheld>>

C11_Frame ==
    /\ (Phase = "RUNNING" /\ Phase' = "DRAINING") =>
            sigcount' >= 1 /\ (sigcount' = sigcount + 1 \/ pending)
    /\ (Phase = "STOPPED") => (Phase' = "STOPPED" /\ NoRecordWork)
    /\ (Phase = "STARTING") => NoRecordWork

\* C11 as stated: the state moves only along STARTING -> RUNNING ->
\* DRAINING -> STOPPED, one edge at a time, whenever a termination request
\* arrives.
C11_StrictChain ==
    [][/\ PhaseStep \in {<<"STARTING", "STARTING">>, <<"RUNNING", "RUNNING">>,
                         <<"DRAINING", "DRAINING">>, <<"STOPPED", "STOPPED">>,
                         <<"STARTING", "RUNNING">>, <<"RUNNING", "DRAINING">>,
                         <<"DRAINING", "STOPPED">>}
       /\ C11_Frame]_vars

\* C11 amended: the state never moves backwards along STARTING, RUNNING,
\* DRAINING, STOPPED; a termination request made during startup takes it
\* from STARTING to DRAINING (handlers installed) or to STOPPED (the
\* handler of that signal not installed yet) without RUNNING in between; RUNNING is left only for
\* DRAINING and only on a request; STOPPED is final; no record is handled
\* in STARTING or STOPPED.
C11_Lifecycle ==
    [][/\ PhaseStep \in {<<"STARTING", "STARTING">>, <<"RUNNING", "RUNNING">>,
                         <<"DRAINING", "DRAINING">>, <<"STOPPED", "STOPPED">>,
                         <<"STARTING", "RUNNING">>, <<"RUNNING", "DRAINING">>,
                         <<"DRAINING", "STOPPED">>,
                         <<"STARTING", "DRAINING">>, <<"STARTING", "STOPPED">>}
       /\ C11_Frame]_vars

\* A request was handled between the installation of the handlers and the
\* opening of the ring buffer.
C11_Witness == pc = "attach" /\ ~running /\ sigcount >= 1

\* --------------------------------------------------------------------- C12
\* C12: whenever handleevent is not in the middle of a record, nothing is
\* left in the stdout buffer and every record that was printed has its
\* header line and its payload line in the sink; this includes the end of
\* the process.
C12_FlushedPerRecord ==
    pc \notin InCallback =>
        /\ outbuf = <<>>
        /\ ~eolheld
        /\ \A id \in accepted : Renders(id) => EmittedOnce(id)

C12_Witness ==
    /\ pc = "poll"
    /\ Len(sink) = 2
    /\ \E id \in accepted : EmittedOnce(id)

\* --------------------------------------------------------------------- C13
\* (a << 32) | b on the limbs, for a and b below 2^32 (the bits shifted out
\* are dropped as in a 64-bit register).
RECURSIVE BitOr(_, _, _)
BitOr(a, b, n) ==
    IF n = 0 THEN 0
    ELSE (IF a % 2 = 1 \/ b % 2 = 1 THEN 1 ELSE 0) + 2 * BitOr(a \div 2, b \div 2, n - 1)

Or64(x, y) == [i \in 1..4 |-> BitOr(x[i], y[i], 16)]
Shl32(x) == <<x[3], x[4], 0, 0>>
FitsU32(x) == x[1] = 0 /\ x[2] = 0 /\ x[3] \in 0..65535 /\ x[4] \in 0..65535

\* C13: in every header the pid is the high and the tid the low 32 bits of
\* the pidtgid printed beside them, both fit in 32 bits, and
\* (pid << 32) | tid gives the pidtgid back.
C13_PidTidSplit ==
    \A i \in 1..Len(Lines) :
        Lines[i].kind = "header" =>
            LET pid == Lines[i].text[4]
                tid == Lines[i].text[6]
                pidtgid == Lines[i].text[16]
            IN  /\ pidtgid = RecOf(Lines[i].id).pidtgid
                /\ FitsU32(pid) /\ FitsU32(tid)
                /\ pid[3] = pidtgid[1] /\ pid[4] = pidtgid[2]
                /\ tid[3] = pidtgid[3] /\ tid[4] = pidtgid[4]
                /\ Or64(Shl32(pid), tid) = pidtgid

C13_Witness ==
    \E i \in 1..Len(sink) :
        /\ sink[i].kind = "header"
        /\ sink[i].text[16] = U64(65535, 4242, 7, 65535)
        /\ sink[i].text[4] = U64(0, 0, 65535, 4242)
        /\ sink[i].text[6] = U64(0, 0, 7, 65535)

\* --------------------------------------------------------------------- C14
\* The characters that end a physical line.
LineBreaks == {"\n", "\r"}

\* No item of a sequence of written characters is a line break.
NoBreakIn(items) == \A k \in 1..Len(items) : items[k] \notin LineBreaks

\* C14: every record that is written takes exactly two lines, a header
\* and then a payload line, and nothing written from its command name or
\* its payload is a line break, whatever bytes they hold.
C14_LineIntegrity ==
    /\ \A i \in 1..Len(Lines) :
          /\ Lines[i].kind = "header" => NoBreakIn(Lines[i].text[20])
          /\ Lines[i].kind = "payload" => NoBreakIn(Lines[i].text)
    /\ pc \notin InCallback =>
          \A id \in accepted : Renders(id) =>
              /\ EmittedOnce(id)
              /\ Cardinality({i \in 1..Len(sink) : sink[i].id = id}) = 2

C14_Witness ==
    /\ pc = "poll"
    /\ Len(sink) = 2
    /\ data = NoData
    /\ \E r \in Range(delivered) :
          /\ CharArrayValue(r.buf) = <<10, 13>>
          /\ r.len = U32(2)
    /\ sink[2].text = <<"b", "'", "\\n", "\\r", "'">>

\* --------------------------------------------------------------------- C15
\* A command name written as the string itself.
NameString(bs) == [i \in 1..Len(bs) |-> Printable[bs[i] - 31]]

\* The entry of calls for record id.
CallOf(id) == CHOOSE c \in Range(calls) : c.id = id

\* C15: the header of a record of direction OUTPUT or INPUT is, in this
\* order, the direction, pid, tid, the calibrated time, the rawtime, cgid,
\* inode, pidtgid, nsid, the command name as a string (comm=bash) and len.
C15_HeaderFormat ==
    \A i \in 1..Len(Lines) :
        LET r == RecOf(Lines[i].id) IN
        (Lines[i].kind = "header" /\ r.etype \in {0, 1}) =>
            Lines[i].text =
                <<"<", EVENT_TYPES[r.etype + 1],
                  " pid=", <<0, 0, r.pidtgid[1], r.pidtgid[2]>>,
                  " tid=", <<0, 0, r.pidtgid[3], r.pidtgid[4]>>,
                  " time=", CallOf(r.id).returned,
                  " rawtime=", r.rawtime,
                  " cgid=", r.cgid,
                  " inode=", r.inode,
                  " pidtgid=", r.pidtgid,
                  " nsid=", r.nsid,
                  " comm=", NameString(CharArrayValue(r.comm)),
                  " len=", r.len,
                  ">">>

\* --------------------------------------------------------------------- C16
\* C16: a header says OUTPUT exactly when the record's etype is 0 and
\* INPUT exactly when it is 1; a record of any other etype, negative ones
\* included, is written with neither label.  (The probes store no other
\* etype than these two, lines 139 and 199.)
C16_DirectionMapping ==
    \A i \in 1..Len(Lines) :
        Lines[i].kind = "header" =>
            /\ (Lines[i].text[2] = "OUTPUT") <=> (RecOf(Lines[i].id).etype = 0)
            /\ (Lines[i].text[2] = "INPUT") <=> (RecOf(Lines[i].id).etype = 1)

\* A record of the receive path and a record of the write path have both
\* been written.
C16_Witness ==
    \E i, j \in 1..Len(sink) :
        /\ sink[i].kind = "header" /\ sink[j].kind = "header"
        /\ RecOf(sink[i].id).etype = 0 /\ sink[i].text[2] = "OUTPUT"
        /\ RecOf(sink[j].id).etype = 1 /\ sink[j].text[2] = "INPUT"

\* --------------------------------------------------------------------- C17
\* The size a probe submits for a requested count.
Clamped(count) == IF count \in 0..(PAGE_SIZE - 2) THEN count ELSE PAGE_SIZE - 1

\* C17: whatever byte count a probe is asked for, 4096 or more and a
\* negative int on the receive path included, the record it submits has
\* 0 <= len <= 4095, len is the count cut to that range, and the byte at
\* position len of the 4096-byte buffer is a zero.
C17_PayloadCapacity ==
    /\ kp.ppc \in {"term", "fields", "submit"} => kp.size \in 0..(PAGE_SIZE - 1)
    /\ \A i \in 1..Len(ring) :
          /\ ~GreaterEq(ring[i].len, U32(PAGE_SIZE))
          /\ ring[i].len = U32(Clamped(kp.count))
          /\ ring[i].buf.cap = PAGE_SIZE
          /\ Val32(ring[i].len) < ring[i].buf.cap
          /\ At(ring[i].buf, Val32(ring[i].len)) = 0

\* The receive probe was called with a negative count over memory that
\* held no zero byte and submitted a full record.
C17_Witness ==
    /\ kp.kind = "receive"
    /\ kp.count < 0
    /\ Len(ring) = 1
    /\ ring[1].len = U32(PAGE_SIZE - 1)
    /\ \A k \in 0..(PAGE_SIZE - 2) : At(ring[1].buf, k) # 0
    /\ ring[1].buf.fill # 0

\* --------------------------------------------------------------------- C18
\* A step on which a signal arrives.
SignalArrives == sigcount' = sigcount + 1

\* A step on which handleinterrupt runs: at once when the signal arrives
\* during Python code, or later for a signal that was pending.
HandlerRuns ==
    \/ SignalArrives /\ pc' # "killed" /\ ~pending'
    \/ pending /\ ~pending'

\* C18: handling SIGINT or SIGTERM changes only the flag: running is
\* false once the handler has run and never becomes true again, while the
\* calibration state and everything already written stay as they were;
\* the calibration state changes only at the call of calibratetime inside
\* handleevent.
C18_Step ==
    /\ HandlerRuns => ~running'
    /\ SignalArrives => UNCHANGED <<calibvars, outvars, clockvars, ring, nrecv,
                                    localvars, delivered, accepted, calls>>
    /\ running' => running
    /\ IsPrefix(Lines, Lines')
    /\ calibvars' # calibvars =>
          /\ pc = "h_calib" /\ pc' = "h_header"
          /\ ~SignalArrives
          /\ data.id \in accepted

C18_HandlerFrame == [][C18_Step]_vars

\* A signal was handled inside a callback after calibratetime had updated
\* its state and after lines had been written.
C18_Witness ==
    /\ ~running
    /\ hit # {}
    /\ sink # <<>>
    /\ \E k \in 1..Len(calls) : calls[k].updates = 1

\* --------------------------------------------------------------------- C19
\* C19: once running is false, a record whose callback reaches the test of
\* line 255 is dropped: it is not calibrated, not printed and leaves the
\* calibration state alone, also when it is delivered later in the same
\* call of ring_buffer_poll(); after the signal only the one record that
\* was already past the test is still processed.
C19_Step ==
    /\ (pc = "h_check" /\ pc' # "h_check" /\ ~running) =>
          /\ pc' = "poll"
          /\ UNCHANGED <<calibvars, outvars, calls, accepted>>
    /\ ~running => accepted' = accepted
    /\ (~running /\ (Lines' # Lines \/ calls' # calls \/ calibvars' # calibvars)) =>
          /\ pc \in InCallback
          /\ data.id \in hit
          /\ \A i \in (Len(Lines) + 1)..Len(Lines') : Lines'[i].id = data.id

C19_State ==
    /\ Cardinality(hit) <= 1
    /\ (~running /\ pc \in InCallback) => data.id \in hit
    /\ hit \subseteq accepted

C19_NoEmissionAfterCancel == []C19_State /\ [][C19_Step]_vars

\* The first record was past the test when the signal came and was
\* written; the second, delivered in the same poll call, was dropped.
C19_Witness ==
    /\ ~running
    /\ pc = "poll"
    /\ Len(delivered) = 2
    /\ accepted = {1}
    /\ hit = {1}
    /\ Renders(2)
    /\ LinesOf(sink, 1, "header") # {}
    /\ LinesOf(Lines, 2, "header") = {}

\* --------------------------------------------------------------------- C20
\* How often the entries of `what` occur in the log of the probe.
Occurs(what) == Cardinality({i \in 1..Len(kp.log) : kp.log[i] \in what})

\* C20: in both probes a reservation that succeeded is given back exactly
\* once, by ringbuf_submit or by ringbuf_discard, before the probe returns;
\* it is never given back twice; after a failed reservation or a failed
\* payload read nothing is submitted; a submitted record has rawtime, cgid,
\* inode, pidtgid, nsid, comm, len and etype assigned.
C20_ReservationProtocol ==
    /\ Occurs({"submit", "discard"}) <= Occurs({"reserve"})
    /\ Occurs({"reserve"}) <= 1
    /\ kp.ppc = "returned" => Occurs({"submit", "discard"}) = Occurs({"reserve"})
    /\ kp.ppc \in {"read", "term", "fields", "submit"} =>
          Occurs({"reserve"}) = 1 /\ Occurs({"submit", "discard"}) = 0
    /\ Occurs({"nomem", "readfail"}) > 0 => Occurs({"submit"}) = 0 /\ ring = <<>>
    /\ Len(ring) = Occurs({"submit"})
    /\ \A i \in 1..Len(ring) :
          /\ kp.set = EventFields
          /\ ring[i].rawtime = kp.rawtime
          /\ ring[i].cgid = BaseRecord.cgid
          /\ ring[i].inode = kp.ino
          /\ ring[i].pidtgid = BaseRecord.pidtgid
          /\ ring[i].nsid \in {BaseRecord.nsid, <<0, 0, 0, 0>>}
          /\ ring[i].comm = BaseRecord.comm
          /\ ring[i].len = U32(kp.size)
          /\ ring[i].etype = (IF kp.kind = "tty_write" THEN 1 ELSE 0)

\* The write probe reserved a record, could not read the payload and
\* returned after the discard.
C20_Witness ==
    /\ kp.ppc = "returned"
    /\ kp.kind = "tty_write"
    /\ kp.log = <<"reserve", "readfail", "discard">>
    /\ ring = <<>>

====
